---- MODULE Spec2Model ----
(***************************************************************************)
(* Model of newsletter_generator.py: the on-disk article cache and         *)
(* fetch_articles, summarize_article, create_newsletter_content,           *)
(* send_email and the pipeline of main.                                    *)
(*                                                                         *)
(* Two specifications share the state:                                     *)
(*   Spec       one run of main, from argument parsing to the end of the   *)
(*              process, started on a cache directory earlier runs left;   *)
(*   SpecCache  repeated calls of fetch_articles on the persistent cache   *)
(*              directory while the wall clock advances.                   *)
(***************************************************************************)
EXTENDS Integers, Sequences, FiniteSets, TLC

VARIABLES
    cache,       \* ./cache: request -> cache file (exists, content, mtime)
    now,         \* time.time(), in seconds
    stored,      \* history: request -> list most recently stored by a successful fetch
    call,        \* history: the latest fetch_articles call and its outcome
    pc,          \* position of main
    args,        \* parsed command-line arguments
    articles,    \* main's local `articles` (the value fetch_articles returned)
    log,         \* history: the summarize_article calls, in call order
    html,        \* html_content being built / newsletter_html
    outputFile,  \* content of args.output_file on disk
    smtp,        \* history: what send_email did
    stdout,      \* messages printed
    uncaught     \* exception that propagated out of main, if any

vars == <<cache, now, stored, call, pc, args, articles, log, html,
          outputFile, smtp, stdout, uncaught>>

cacheVars == <<cache, now, stored, call>>
mainVars == <<pc, args, articles, log, html, outputFile, smtp, stdout, uncaught>>

---------------------------------------------------------------------------
(* Bounds of the model *)

MaxArticles == 2     \* largest pageSize requested, so the longest list the source returns
MaxTicks == 2        \* the clock advances at most this many times
TickStep == 1800     \* seconds per clock step (two steps reach cache_timeout exactly)
MaxPartial == 1      \* a write that fails part-way leaves at most this many tokens
MaxCachedPrints == 2 \* SpecCache: calls served from the cache whose message stdout keeps

(* Program constant: the default of NewsletterGenerator(cache_timeout) *)

cache_timeout == 3600

---------------------------------------------------------------------------
(* Python values.  A dict key that is absent is Missing; None is PyNone. *)

Missing == "<missing>"
PyNone == "<None>"

\* bool(v) of a str-or-None value
Truthy(v) == v \notin {Missing, PyNone, ""}

\* dict.get(key, default)
DictGet(d, key, default) == IF d[key] = Missing THEN default ELSE d[key]

FieldNames == <<"title", "url", "content", "description">>

EmptyDict == [title |-> Missing, url |-> Missing, content |-> Missing, description |-> Missing]

(* Article objects the source can return *)
ArtA == [title |-> "A", url |-> "http://a", content |-> "text A", description |-> "desc A"]
ArtB == [title |-> "B", url |-> "http://b", content |-> PyNone, description |-> PyNone]
ArtC == [title |-> "C", url |-> "http://c", content |-> Missing, description |-> Missing]
ArtD == [title |-> "D", url |-> "http://d", content |-> "", description |-> "desc D"]
ArtE == [title |-> Missing, url |-> Missing, content |-> "text E", description |-> Missing]
ArtF == [title |-> "F", url |-> "http://f", content |-> "", description |-> ""]
ArtG == [title |-> "G", url |-> "http://g", content |-> PyNone, description |-> "desc G"]

Articles == {ArtA, ArtB, ArtC, ArtD, ArtE, ArtF, ArtG}

SeqsUpTo(S, n) == UNION {[1..k -> S] : k \in 0..n}

\* the value of a Python variable holding a list or None
NoneValue == [isNone |-> TRUE, list |-> <<>>]
ListValue(l) == [isNone |-> FALSE, list |-> l]

\* bool(articles): None and [] are falsy
TruthyList(v) == ~v.isNone /\ Len(v.list) > 0

---------------------------------------------------------------------------
(* json.dump / json.load of an article list, as a token stream *)

DumpValue(v) == IF v = PyNone THEN <<"null">> ELSE <<"str", v>>

DumpField(a, k) == IF a[k] = Missing THEN <<>> ELSE <<k>> \o DumpValue(a[k])

DumpArticle(a) ==
    <<"{">> \o DumpField(a, "title") \o DumpField(a, "url")
            \o DumpField(a, "content") \o DumpField(a, "description") \o <<"}">>

RECURSIVE DumpItems(_)
DumpItems(s) == IF s = <<>> THEN <<>> ELSE DumpArticle(Head(s)) \o DumpItems(Tail(s))

JsonDump(list) == <<"[">> \o DumpItems(list) \o <<"]">>

ParseFail == [ok |-> FALSE, value |-> <<>>]

RECURSIVE ParseFields(_, _, _)
ParseFields(toks, pos, acc) ==
    IF pos > Len(toks) THEN [ok |-> FALSE, article |-> acc, next |-> pos]
    ELSE IF toks[pos] = "}" THEN [ok |-> TRUE, article |-> acc, next |-> pos + 1]
    ELSE IF toks[pos] \notin {FieldNames[i] : i \in 1..Len(FieldNames)} \/ pos + 1 > Len(toks)
        THEN [ok |-> FALSE, article |-> acc, next |-> pos]
    ELSE IF toks[pos + 1] = "null"
        THEN ParseFields(toks, pos + 2, [acc EXCEPT ![toks[pos]] = PyNone])
    ELSE IF toks[pos + 1] = "str" /\ pos + 2 <= Len(toks)
        THEN ParseFields(toks, pos + 3, [acc EXCEPT ![toks[pos]] = toks[pos + 2]])
    ELSE [ok |-> FALSE, article |-> acc, next |-> pos]

RECURSIVE ParseItems(_, _, _)
ParseItems(toks, pos, acc) ==
    IF pos > Len(toks) THEN ParseFail
    ELSE IF toks[pos] = "]" THEN [ok |-> pos = Len(toks), value |-> acc]
    ELSE IF toks[pos] = "{" THEN
        LET r == ParseFields(toks, pos + 1, EmptyDict)
        IN  IF r.ok THEN ParseItems(toks, r.next, Append(acc, r.article)) ELSE ParseFail
    ELSE ParseFail

\* json.load: ok = FALSE stands for json.JSONDecodeError
JsonLoad(toks) ==
    IF Len(toks) = 0 \/ toks[1] # "[" THEN ParseFail ELSE ParseItems(toks, 2, <<>>)

---------------------------------------------------------------------------
(* The cache directory *)

\* the (topic, max_articles) pairs requested
Requests == {<<"AI", MaxArticles>>, <<"Tech", 1>>}

\* cache_file: one file name per request URL (the md5 of the URL, taken as injective)
CacheFile(topic, max_articles) == <<topic, max_articles>>

NoFile == [exists |-> FALSE, content |-> <<>>, mtime |-> 0]

\* os.path.exists(cache_file) and (time.time() - os.path.getmtime(cache_file) < self.cache_timeout)
CacheFresh(file, t) == file.exists /\ (t - file.mtime < cache_timeout)

\* response.raise_for_status(): raises HTTPError for 4xx and 5xx
RaiseForStatus_serverErrorsOnly(status) == status >= 500 /\ status < 600

RaiseForStatus(status) == status >= 400 /\ status < 600

(* What the environment does during one fetch_articles call. *)
\* the final status of the response: success; a redirect without Location, which
\* requests does not follow; 304; a client error; a server error
StatusCodes == {200, 301, 304, 404, 503}

\* the HTTP stack under requests.get drops the body of a 304 response:
\* response.content is empty and response.json() raises
BodyDropped(status) == status = 304
Bodies == {"articles", "no_articles_key", "not_json"}

\* the article lists the source can answer a request for max_articles with
SourceLists(max_articles) == SeqsUpTo(Articles, max_articles)

\* the replies of the source: no connection; a status whose body is dropped, so
\* that no JSON arrives; or any other status with any body (an object with an
\* article list, an object without one, no JSON at all)
Replies(lists) ==
    {[connected |-> FALSE, status |-> 0, body |-> "not_json", articles |-> <<>>]}
    \cup {[connected |-> TRUE, status |-> s, body |-> "not_json", articles |-> <<>>] :
            s \in {c \in StatusCodes : BodyDropped(c)}}
    \cup {[connected |-> TRUE, status |-> s, body |-> b, articles |-> <<>>] :
            s \in {c \in StatusCodes : ~BodyDropped(c)}, b \in Bodies \ {"articles"}}
    \cup {[connected |-> TRUE, status |-> s, body |-> "articles", articles |-> l] :
            s \in {c \in StatusCodes : ~BodyDropped(c)}, l \in lists}

\* disk: whether open(cache_file, "r"), open(cache_file, "w") and json.dump succeed;
\* cut is the number of tokens on disk when json.dump fails part-way;
\* jsonErrorCaught: whether the installed requests raises its own JSONDecodeError
\* (a RequestException) from response.json(), or a plain ValueError
DiskOk == [read |-> "ok", write |-> "ok", cut |-> 0, jsonErrorCaught |-> TRUE]

Disks ==
    {DiskOk, [DiskOk EXCEPT !.read = "open_fails"], [DiskOk EXCEPT !.write = "open_fails"],
     [DiskOk EXCEPT !.jsonErrorCaught = FALSE]}
    \cup {[DiskOk EXCEPT !.write = "dump_fails", !.cut = c] : c \in 0..MaxPartial}

FetchOutcome(result, raised, file, netCalls, cacheError) ==
    [result |-> result, raised |-> raised, file |-> file,
     netCalls |-> netCalls, cacheError |-> cacheError]

\* fetch_articles, from the cache lookup on: file is the cache file of the request,
\* t the time of the call, reply and disk what the environment does
FetchArticles(file, t, reply, disk) ==
    IF CacheFresh(file, t) THEN
        IF disk.read = "open_fails"
            THEN FetchOutcome(NoneValue, "OSError", file, 0, "read")
        ELSE LET r == JsonLoad(file.content)
             IN  IF r.ok THEN FetchOutcome(ListValue(r.value), "none", file, 0, "none")
                 ELSE FetchOutcome(NoneValue, "JSONDecodeError", file, 0, "read")
    ELSE IF ~reply.connected
        THEN FetchOutcome(NoneValue, "none", file, 1, "none")
    ELSE IF RaiseForStatus(reply.status)
        THEN FetchOutcome(NoneValue, "none", file, 1, "none")
    ELSE IF reply.body = "not_json" THEN
        IF disk.jsonErrorCaught
            THEN FetchOutcome(NoneValue, "none", file, 1, "none")
            ELSE FetchOutcome(NoneValue, "ValueError", file, 1, "none")
    ELSE IF disk.write = "open_fails"
        THEN FetchOutcome(NoneValue, "OSError", file, 1, "write")
    ELSE IF reply.body = "no_articles_key"
        THEN FetchOutcome(NoneValue, "KeyError",
                          [exists |-> TRUE, content |-> <<>>, mtime |-> t], 1, "none")
    ELSE LET dump == JsonDump(reply.articles)
         IN  IF disk.write = "dump_fails" /\ disk.cut < Len(dump)
                THEN FetchOutcome(NoneValue, "OSError",
                        [exists |-> TRUE, content |-> SubSeq(dump, 1, disk.cut), mtime |-> t],
                        1, "write")
                ELSE FetchOutcome(ListValue(reply.articles), "none",
                        [exists |-> TRUE, content |-> dump, mtime |-> t], 1, "none")

NoCall ==
    [made |-> FALSE, key |-> <<"AI", MaxArticles>>, fresh |-> FALSE, unchanged |-> TRUE,
     connected |-> FALSE, status |-> 0,
     result |-> NoneValue, raised |-> "none", netCalls |-> 0, cacheError |-> "none"]

\* the record of one call
CallRecord(key, file, t, reply, o) ==
    [made |-> TRUE, key |-> key, fresh |-> CacheFresh(file, t), unchanged |-> (o.file = file),
     connected |-> IF o.netCalls > 0 THEN reply.connected ELSE FALSE,
     status |-> IF o.netCalls > 0 THEN reply.status ELSE 0,
     result |-> o.result, raised |-> o.raised, netCalls |-> o.netCalls,
     cacheError |-> o.cacheError]

\* the list a call stored: the call fetched from the network and returned a list
Stored(o) == o.netCalls > 0 /\ o.raised = "none" /\ ~o.result.isNone

NoList == NoneValue

---------------------------------------------------------------------------
(* Command-line arguments *)

EmailFields == {"recipient_email", "sender_email", "smtp_server", "smtp_user", "smtp_password"}

ArgsBase ==
    [topic |-> "AI", max |-> MaxArticles, title |-> "Tech Daily",
     output_file |-> PyNone, send_email |-> FALSE,
     recipient_email |-> PyNone, sender_email |-> PyNone, smtp_server |-> PyNone,
     smtp_user |-> PyNone, smtp_password |-> PyNone]

ArgsAllEmail ==
    [ArgsBase EXCEPT !.send_email = TRUE,
                     !.recipient_email = "to@example.org", !.sender_email = "from@example.org",
                     !.smtp_server = "smtp.example.org", !.smtp_user = "user",
                     !.smtp_password = "secret"]

\* --send-email absent; present with every email argument; present with one missing
EmailArgSets ==
    {ArgsBase, ArgsAllEmail} \cup {[ArgsAllEmail EXCEPT ![f] = PyNone] : f \in EmailFields}

ArgSets ==
    {[a EXCEPT !.topic = r[1], !.max = r[2], !.output_file = o] :
        a \in EmailArgSets, r \in Requests, o \in {PyNone, "newsletter.html"}}

\* all([args.recipient_email, args.sender_email, args.smtp_server, args.smtp_user, args.smtp_password])
AllEmailArgs_passwordUnchecked(a) ==
    /\ Truthy(a.recipient_email)
    /\ Truthy(a.sender_email)
    /\ Truthy(a.smtp_server)
    /\ Truthy(a.smtp_user)

AllEmailArgs(a) ==
    /\ Truthy(a.recipient_email)
    /\ Truthy(a.sender_email)
    /\ Truthy(a.smtp_server)
    /\ Truthy(a.smtp_user)
    /\ Truthy(a.smtp_password)

---------------------------------------------------------------------------
(* Messages printed *)

MsgCached == "Using cached articles."
MsgSaved == "Newsletter saved to file"
MsgGenerated == "Newsletter content generated successfully. Use -o to save to a file or --send-email to send."
MsgSent == "Newsletter sent successfully"
MsgEmailArgs == "To send an email, you must provide all required email arguments."
MsgFailed == "Failed to generate newsletter because no articles could be fetched."
MsgRuntime == "Total runtime"

Printed(msg) == \E i \in 1..Len(stdout) : stdout[i] = msg

---------------------------------------------------------------------------
(* summarize_article *)

Placeholder == <<"Summary could not be generated.">>

\* str(v) inside an f-string
Format(v) == IF v = PyNone THEN "None" ELSE v

Blank == {"", " ", "\n"}

RECURSIVE StripLeft(_)
StripLeft(s) == IF s # <<>> /\ Head(s) \in Blank THEN StripLeft(Tail(s)) ELSE s

RECURSIVE StripRight(_)
StripRight(s) ==
    IF s # <<>> /\ s[Len(s)] \in Blank THEN StripRight(SubSeq(s, 1, Len(s) - 1)) ELSE s

\* str.strip()
Strip(s) == StripRight(StripLeft(s))

\* the completion the service returns for the prompt built from article_content
ServiceText(article_content) == <<" ", "Summary of", Format(article_content), "\n">>

\* what the service does with one request: answers, or fails in one of these ways
ServiceOutcomes == {"ok", "Timeout", "AuthenticationError", "MalformedResponse"}
ServiceErrors == ServiceOutcomes \ {"ok"}

\* summarize_article(article_content) when the service does svc
SummarizeArticle_timeoutEscapes(article_content, svc) ==
    IF svc = "ok"
        THEN [summary |-> Strip(ServiceText(article_content)), raised |-> "none", requests |-> 1]
    ELSE IF svc = "Timeout"
        THEN [summary |-> <<>>, raised |-> svc, requests |-> 1]
    ELSE [summary |-> Placeholder, raised |-> "none", requests |-> 1]

SummarizeArticle(article_content, svc) ==
    IF svc = "ok"
        THEN [summary |-> Strip(ServiceText(article_content)), raised |-> "none", requests |-> 1]
        ELSE [summary |-> Placeholder, raised |-> "none", requests |-> 1]

---------------------------------------------------------------------------
(* create_newsletter_content *)

\* article.get('content') or article.get('description', '')
ContentToSummarize(article) ==
    LET c == DictGet(article, "content", PyNone)
    IN  IF Truthy(c) THEN c ELSE DictGet(article, "description", "")

\* for article in articles: the article of the k-th iteration
LoopArticle_reversed(list, k) == list[Len(list) + 1 - k]

LoopArticle(list, k) == list[k]

\* the parts of the document
HeadPart(title, topic) == [kind |-> "head", title |-> title, text |-> <<topic>>, url |-> ""]
FooterPart == [kind |-> "footer", title |-> "", text |-> <<>>, url |-> ""]
SeparatorPart == [kind |-> "separator", title |-> "", text |-> <<>>, url |-> ""]
ArticlePart(article, summary) ==
    [kind |-> "article", title |-> Format(article.title), text |-> summary,
     url |-> Format(article.url)]

NoArticlesFound == <<[kind |-> "text", title |-> "No articles found for the newsletter.",
                      text |-> <<>>, url |-> ""]>>

\* html_content += <div class="article"> ... </div>
RenderBlock_withSeparator(doc, article, summary) ==
    IF doc[Len(doc)].kind = "article"
        THEN doc \o <<SeparatorPart, ArticlePart(article, summary)>>
        ELSE Append(doc, ArticlePart(article, summary))

RenderBlock(doc, article, summary) == Append(doc, ArticlePart(article, summary))

\* article['title'] or article['url'] raises KeyError
BlockKeyError(article) == article.title = Missing \/ article.url = Missing

ArticleBlocks(doc) == SelectSeq(doc, LAMBDA e : e.kind = "article")
Separators(doc) == SelectSeq(doc, LAMBDA e : e.kind = "separator")

\* the document is complete: create_newsletter_content reached its return
Rendered == html # <<>> /\ html[Len(html)].kind = "footer"

---------------------------------------------------------------------------
(* send_email *)

\* subclasses of smtplib.SMTPException
SmtpExceptions ==
    {"SMTPConnectError", "SMTPNotSupportedError", "SMTPAuthenticationError",
     "SMTPRecipientsRefused"}

\* what the mail session does: completes, or fails at a stage with an exception;
\* connecting and the TLS handshake also fail with OSError subclasses
\* (ConnectionRefusedError, socket.gaierror, TimeoutError, ssl.SSLError)
SmtpOutcomes ==
    {[stage |-> "none", exc |-> "none"],
     [stage |-> "connect", exc |-> "ConnectionRefusedError"],
     [stage |-> "connect", exc |-> "SMTPConnectError"],
     [stage |-> "starttls", exc |-> "SSLError"],
     [stage |-> "starttls", exc |-> "SMTPNotSupportedError"],
     [stage |-> "login", exc |-> "SMTPAuthenticationError"],
     [stage |-> "send_message", exc |-> "SMTPRecipientsRefused"]}

NoSmtp == [called |-> FALSE, sessions |-> 0, stage |-> "none", error |-> "none", sent |-> FALSE]

\* send_email(...) when the session does o: the history record and what propagates
SendEmail(o) ==
    [smtp |-> [called |-> TRUE, sessions |-> 1, stage |-> o.stage, error |-> o.exc,
               sent |-> (o.exc = "none")],
     raised |-> IF o.exc = "none" \/ o.exc \in SmtpExceptions THEN "none" ELSE o.exc]

---------------------------------------------------------------------------
(* main *)

\* args.output_file on disk: no file, or a file with the parts written to it
NoOutput == [exists |-> FALSE, content |-> <<>>]
WrittenOutput(doc) == [exists |-> TRUE, content |-> doc]

\* what the disk does with the output file: open(args.output_file, "w") succeeds or
\* raises OSError; f.write fails after cut parts of the document reached the file
OutputDisks ==
    {[write |-> "ok", cut |-> 0], [write |-> "open_fails", cut |-> 0]}
    \cup {[write |-> "write_fails", cut |-> c] : c \in 0..MaxPartial}

\* with open(args.output_file, "w", encoding="utf-8") as f: f.write(newsletter_html)
WriteOutput(file, doc, disk) ==
    IF disk.write = "open_fails"
        THEN [file |-> file, raised |-> "OSError"]
    ELSE IF disk.write = "write_fails" /\ disk.cut < Len(doc)
        THEN [file |-> WrittenOutput(SubSeq(doc, 1, disk.cut)), raised |-> "OSError"]
    ELSE [file |-> WrittenOutput(doc), raised |-> "none"]

MainIdle ==
    /\ pc = "idle"
    /\ args = ArgsBase
    /\ articles = NoneValue
    /\ log = <<>>
    /\ html = <<>>
    /\ outputFile = NoOutput
    /\ smtp = NoSmtp
    /\ stdout = <<>>
    /\ uncaught = "none"

InitCache ==
    /\ cache = [k \in Requests |-> NoFile]
    /\ now = 0
    /\ stored = [k \in Requests |-> NoList]
    /\ call = NoCall
    /\ MainIdle

\* the lists the source answers with in SpecCache: empty, one article, several
CacheLists(max_articles) ==
    {l \in {<<>>, <<ArtA>>, <<ArtB, ArtA>>} : Len(l) <= max_articles}

\* one call generator.fetch_articles(topic, max_articles)
FetchCall ==
    \E k \in Requests :
        /\ CacheFresh(cache[k], now) => Len(stdout) < MaxCachedPrints
        /\ \E reply \in Replies(CacheLists(k[2])) : \E disk \in Disks :
           \E o \in {FetchArticles(cache[CacheFile(k[1], k[2])], now, reply, disk)} :
            /\ cache' = [cache EXCEPT ![k] = o.file]
            /\ stored' = IF Stored(o) THEN [stored EXCEPT ![k] = o.result] ELSE stored
            /\ call' = CallRecord(k, cache[k], now, reply, o)
            /\ stdout' = IF CacheFresh(cache[k], now) THEN Append(stdout, MsgCached) ELSE stdout
            /\ UNCHANGED <<now, pc, args, articles, log, html, outputFile, smtp, uncaught>>

\* the wall clock advances
Tick ==
    /\ now < MaxTicks * TickStep
    /\ now' = now + TickStep
    /\ UNCHANGED <<cache, stored, call, mainVars>>

NextCache == FetchCall \/ Tick

SpecCache == InitCache /\ [][NextCache]_vars

---------------------------------------------------------------------------
(* One run of main *)

\* the list an earlier run left in the cache
SeedList == <<ArtB, ArtA>>

\* the cache file of the request when the run starts at time t: none; written by a
\* successful fetch and still fresh; the same, expired; left empty by a fetch that failed
StartFiles(t) ==
    {NoFile,
     [exists |-> TRUE, content |-> JsonDump(SeedList), mtime |-> t - TickStep],
     [exists |-> TRUE, content |-> JsonDump(SeedList), mtime |-> t - cache_timeout],
     [exists |-> TRUE, content |-> <<>>, mtime |-> t - TickStep]}

Init ==
    /\ now = cache_timeout
    /\ args \in ArgSets
    /\ \E f \in StartFiles(cache_timeout) :
        /\ cache = [k \in Requests |-> IF k = CacheFile(args.topic, args.max) THEN f ELSE NoFile]
        /\ stored = [k \in Requests |->
                        IF k = CacheFile(args.topic, args.max) /\ f.content # <<>>
                            THEN ListValue(SeedList) ELSE NoList]
    /\ call = NoCall
    /\ pc = "start"
    /\ articles = NoneValue
    /\ log = <<>>
    /\ html = <<>>
    /\ outputFile = NoOutput
    /\ smtp = NoSmtp
    /\ stdout = <<>>
    /\ uncaught = "none"

\* articles = generator.fetch_articles(args.topic, args.max)
MainFetch ==
    /\ pc = "start"
    /\ \E reply \in Replies(SourceLists(args.max)) : \E disk \in Disks :
        LET k == CacheFile(args.topic, args.max)
        IN  \E o \in {FetchArticles(cache[k], now, reply, disk)} :
            /\ cache' = [cache EXCEPT ![k] = o.file]
            /\ stored' = IF Stored(o) THEN [stored EXCEPT ![k] = o.result] ELSE stored
            /\ call' = CallRecord(k, cache[k], now, reply, o)
            /\ stdout' = IF CacheFresh(cache[k], now) THEN Append(stdout, MsgCached) ELSE stdout
            /\ IF o.raised # "none"
                THEN /\ pc' = "crashed"
                     /\ uncaught' = o.raised
                     /\ UNCHANGED articles
                ELSE /\ pc' = "fetched"
                     /\ articles' = o.result
                     /\ UNCHANGED uncaught
    /\ UNCHANGED <<now, args, log, html, outputFile, smtp>>

\* if articles: ... else: print("Failed to generate newsletter ...")
MainNoArticles ==
    /\ pc = "fetched"
    /\ ~TruthyList(articles)
    /\ stdout' = stdout \o <<MsgFailed, MsgRuntime>>
    /\ pc' = "done"
    /\ UNCHANGED <<cacheVars, args, articles, log, html, outputFile, smtp, uncaught>>

\* create_newsletter_content is entered: the head of the document
\* (main calls it only with a non-empty list, so the first branch is never taken)
ContentStart ==
    /\ pc = "fetched"
    /\ TruthyList(articles)
    /\ IF ~TruthyList(articles)
        THEN html' = NoArticlesFound /\ pc' = "rendered"
        ELSE html' = <<HeadPart(args.title, args.topic)>> /\ pc' = "summarizing"
    /\ UNCHANGED <<cacheVars, args, articles, log, outputFile, smtp, stdout, uncaught>>

\* one iteration of the loop: summarize the article, append its block
ContentArticle ==
    /\ pc = "summarizing"
    /\ Len(log) < Len(articles.list)
    /\ \E svc \in ServiceOutcomes :
        LET article == LoopArticle(articles.list, Len(log) + 1)
            content_to_summarize == ContentToSummarize(article)
            r == SummarizeArticle(content_to_summarize, svc)
        IN  /\ log' = Append(log, [input |-> content_to_summarize, failed |-> (svc # "ok"),
                                   result |-> r.summary, requests |-> r.requests])
            /\ IF r.raised # "none"
                THEN pc' = "crashed" /\ uncaught' = r.raised /\ UNCHANGED html
               ELSE IF BlockKeyError(article)
                THEN pc' = "crashed" /\ uncaught' = "KeyError" /\ UNCHANGED html
               ELSE /\ html' = RenderBlock(html, article, r.summary)
                    /\ UNCHANGED <<pc, uncaught>>
    /\ UNCHANGED <<cacheVars, args, articles, outputFile, smtp, stdout>>

\* the loop is over: the footer, return html_content
ContentFinish ==
    /\ pc = "summarizing"
    /\ Len(log) = Len(articles.list)
    /\ html' = Append(html, FooterPart)
    /\ pc' = "rendered"
    /\ UNCHANGED <<cacheVars, args, articles, log, outputFile, smtp, stdout, uncaught>>

\* if args.output_file: write the file; else: print the hint
MainOutput ==
    /\ pc = "rendered"
    /\ IF Truthy(args.output_file)
        THEN \E disk \in OutputDisks :
                LET w == WriteOutput(outputFile, html, disk)
                IN  /\ outputFile' = w.file
                    /\ IF w.raised # "none"
                        THEN pc' = "crashed" /\ uncaught' = w.raised /\ UNCHANGED stdout
                        ELSE /\ pc' = "saved"
                             /\ stdout' = Append(stdout, MsgSaved)
                             /\ UNCHANGED uncaught
        ELSE /\ stdout' = Append(stdout, MsgGenerated)
             /\ pc' = "saved"
             /\ UNCHANGED <<outputFile, uncaught>>
    /\ UNCHANGED <<cacheVars, args, articles, log, html, smtp>>

\* args.send_email with every email argument: generator.send_email(...)
MainSendEmail ==
    /\ pc = "saved"
    /\ args.send_email
    /\ AllEmailArgs(args)
    /\ \E o \in SmtpOutcomes :
        LET r == SendEmail(o)
        IN  /\ smtp' = r.smtp
            /\ IF r.raised # "none"
                THEN pc' = "crashed" /\ uncaught' = r.raised /\ UNCHANGED stdout
                ELSE /\ pc' = "done"
                     /\ UNCHANGED uncaught
                     /\ stdout' = IF r.smtp.sent THEN stdout \o <<MsgSent, MsgRuntime>>
                                                 ELSE Append(stdout, MsgRuntime)
    /\ UNCHANGED <<cacheVars, args, articles, log, html, outputFile>>

\* args.send_email with an email argument missing: the message, no delivery
MainSkipEmail ==
    /\ pc = "saved"
    /\ args.send_email
    /\ ~AllEmailArgs(args)
    /\ stdout' = stdout \o <<MsgEmailArgs, MsgRuntime>>
    /\ pc' = "done"
    /\ UNCHANGED <<cacheVars, args, articles, log, html, outputFile, smtp, uncaught>>

\* --send-email not given
MainNoEmail ==
    /\ pc = "saved"
    /\ ~args.send_email
    /\ stdout' = Append(stdout, MsgRuntime)
    /\ pc' = "done"
    /\ UNCHANGED <<cacheVars, args, articles, log, html, outputFile, smtp, uncaught>>

Next ==
    \/ MainFetch
    \/ MainNoArticles
    \/ ContentStart
    \/ ContentArticle
    \/ ContentFinish
    \/ MainOutput
    \/ MainSendEmail
    \/ MainSkipEmail
    \/ MainNoEmail

Spec == Init /\ [][Next]_vars

---------------------------------------------------------------------------
(* Properties *)

\* the status is not a success status
NonSuccess(status) == status \notin 200..299

\* the status is an HTTP error status: a client or a server error
ErrorStatus(status) == status \in 400..599

\* the text of the article is absent (key missing or null) or empty, in both fields
BothAbsentOrEmpty(article) == ~Truthy(article.content) /\ ~Truthy(article.description)

\* C1: once a fetch succeeded and stored a list for a request, every later call for
\* that request made while the cache file is fresh returns that list and makes no
\* network request.
\* (Calls on which the operating system refuses to open the file are set aside.)
C1_FreshCallReturnsStoredList ==
    (call.made /\ call.fresh /\ ~stored[call.key].isNone /\ call.raised # "OSError") =>
        /\ call.raised = "none"
        /\ call.result = stored[call.key]
        /\ call.netCalls = 0

\* C2 as stated: on a cache miss answered by a non-success status or a transport
\* failure, exactly one request is made and the run ends with the "failed to
\* generate" message: no summarization, no document, no output file, no mail session.
\* (Calls on which writing the cache file fails are set aside.)
C2_FetchFailureEndsRun ==
    (call.made /\ ~call.fresh /\ call.cacheError = "none"
        /\ (~call.connected \/ NonSuccess(call.status))) =>
        /\ call.netCalls = 1
        /\ uncaught = "none"
        /\ pc \in {"fetched", "done"}
        /\ log = <<>>
        /\ html = <<>>
        /\ outputFile = NoOutput
        /\ ~smtp.called /\ smtp.sessions = 0
        /\ (pc = "done" => Printed(MsgFailed))

\* C2 as amended: the same, on a cache miss answered by an HTTP error status (4xx or
\* 5xx) or a transport failure.
C2_ErrorStatusEndsRun ==
    (call.made /\ ~call.fresh /\ (~call.connected \/ ErrorStatus(call.status))) =>
        /\ call.netCalls = 1
        /\ uncaught = "none"
        /\ pc \in {"fetched", "done"}
        /\ log = <<>>
        /\ html = <<>>
        /\ outputFile = NoOutput
        /\ ~smtp.called /\ smtp.sessions = 0
        /\ (pc = "done" => Printed(MsgFailed))

C2_Witness ==
    /\ pc = "done"
    /\ call.made /\ ~call.fresh /\ call.connected /\ call.status = 404
    /\ Printed(MsgFailed)
    /\ Truthy(args.output_file)
    /\ args.send_email /\ AllEmailArgs(args)

\* C3: a read or write error on the cache file never aborts the pipeline: a read
\* error forces a live fetch, a write error still returns the fetched list.
C3_CacheErrorsNonFatal ==
    (call.made /\ call.cacheError # "none") =>
        /\ uncaught = "none"
        /\ (call.cacheError = "read" => call.netCalls = 1)
        /\ (call.cacheError = "write" => ~call.result.isNone)

\* C4: every failure of the summarization service is absorbed by summarize_article,
\* which returns the placeholder after one attempt; the run goes on, and a rendered
\* document for n articles holds n article blocks.
C4_SummarizationErrorsAbsorbed ==
    /\ \A i \in 1..Len(log) :
          log[i].failed => (log[i].result = Placeholder /\ log[i].requests = 1)
    /\ uncaught \notin ServiceErrors
    /\ Rendered => Len(ArticleBlocks(html)) = Len(articles.list)

C4_Witness ==
    /\ pc = "done"
    /\ Rendered
    /\ Len(log) = 2
    /\ log[1].failed /\ ~log[2].failed
    /\ Len(ArticleBlocks(html)) = 2
    /\ ArticleBlocks(html)[1].text = Placeholder

\* C5: every transport, authentication or protocol error of the mail session is
\* caught inside send_email: the run completes and the output file keeps its content.
C5_MailErrorsNonFatal ==
    (smtp.called /\ smtp.error # "none") =>
        /\ uncaught = "none"
        /\ pc = "done"
        /\ (Truthy(args.output_file) => outputFile = WrittenOutput(html))

\* C6: delivery requested with an email argument missing: send_email is not called,
\* no session is opened, the message is printed, and the document and the output
\* file are as they would be otherwise.
C6_MissingEmailArgSkipsDelivery ==
    (args.send_email /\ \E f \in EmailFields : ~Truthy(args[f])) =>
        /\ ~smtp.called /\ smtp.sessions = 0
        /\ ~Printed(MsgSent)
        /\ (pc = "done" /\ Rendered) =>
              /\ Printed(MsgEmailArgs)
              /\ Len(ArticleBlocks(html)) = Len(articles.list)
              /\ IF Truthy(args.output_file)
                    THEN outputFile = WrittenOutput(html) /\ Printed(MsgSaved)
                    ELSE outputFile = NoOutput

C6_Witness ==
    /\ pc = "done"
    /\ Rendered
    /\ args.send_email
    /\ args.smtp_password = PyNone
    /\ \A f \in EmailFields \ {"smtp_password"} : Truthy(args[f])
    /\ Printed(MsgEmailArgs)
    /\ outputFile = WrittenOutput(html)

\* C7: for an article whose content and description are both absent or empty,
\* summarize_article is called with the empty string, and the call does not raise.
C7_EmptyStringForAbsentText ==
    /\ uncaught \notin ServiceErrors
    /\ \A i \in 1..Len(log) :
          BothAbsentOrEmpty(articles.list[i]) => log[i].input = ""

\* C8 as stated: the document of n articles holds n article blocks and n-1
\* separators, each between two consecutive blocks.
C8_BlocksAndSeparators ==
    Rendered =>
        /\ Len(ArticleBlocks(html)) = Len(articles.list)
        /\ Len(Separators(html)) = Len(articles.list) - 1
        /\ \A i \in 1..Len(html) :
              html[i].kind = "separator" =>
                  /\ i > 1 /\ i < Len(html)
                  /\ html[i - 1].kind = "article" /\ html[i + 1].kind = "article"

\* C8 as amended: the document of n articles is the head, then n article blocks one
\* directly after the other, in article order, then the footer; it holds no separator.
C8_BlocksNoSeparators ==
    Rendered =>
        /\ Len(html) = Len(articles.list) + 2
        /\ html[1].kind = "head"
        /\ html[Len(html)].kind = "footer"
        /\ \A i \in 1..Len(articles.list) :
              /\ html[i + 1].kind = "article"
              /\ html[i + 1].title = articles.list[i].title
        /\ Separators(html) = <<>>

C8_Witness ==
    /\ pc = "done"
    /\ Rendered
    /\ Len(articles.list) = 2
    /\ Len(ArticleBlocks(html)) = 2
    /\ html[2].kind = "article" /\ html[3].kind = "article"

\* C9: summarize_article is called once per article, one after the other in the
\* order of the fetched list, and the blocks of the document are in that order,
\* each with the summary of its own article.
C9_OneCallPerArticleInOrder ==
    /\ Len(log) <= Len(articles.list)
    /\ \A i \in 1..Len(log) : log[i].input = ContentToSummarize(articles.list[i])
    /\ pc = "summarizing" => Len(ArticleBlocks(html)) = Len(log)
    /\ Rendered =>
          /\ Len(log) = Len(articles.list)
          /\ Len(ArticleBlocks(html)) = Len(articles.list)
          /\ \A i \in 1..Len(articles.list) :
                /\ ArticleBlocks(html)[i].title = Format(articles.list[i].title)
                /\ ArticleBlocks(html)[i].url = Format(articles.list[i].url)
                /\ ArticleBlocks(html)[i].text = log[i].result

C9_Witness ==
    /\ pc = "done"
    /\ Rendered
    /\ articles.list = <<ArtD, ArtA>>
    /\ Len(log) = 2
    /\ log[1].input = "desc D" /\ log[2].input = "text A"
    /\ ~log[1].failed /\ ~log[2].failed
    /\ ArticleBlocks(html)[1].text = <<"Summary of", "desc D">>
    /\ ArticleBlocks(html)[2].text = <<"Summary of", "text A">>

\* C10: after any fetch_articles call the cache file of the request is either what
\* it was before the call or the complete list of a successful fetch.
C10_CacheWriteAllOrNothing ==
    call.made =>
        \/ call.unchanged
        \/ /\ call.raised = "none"
           /\ ~call.result.isNone
           /\ cache[call.key].content = JsonDump(call.result.list)
           /\ JsonLoad(cache[call.key].content) = [ok |-> TRUE, value |-> call.result.list]

====
